---- MODULE Spec2Model ----
(***************************************************************************)
(* The VFS layer of Weenix: the path resolver of kernel/fs/namev.c and the *)
(* file system calls of kernel/fs/vfs_syscall.c, as one state machine.     *)
(*                                                                         *)
(* State: the descriptor table of curproc, the open file handles (file_t), *)
(* the vnodes with their reference counts, and the directory tree the      *)
(* driver keeps.  Every system call is one action; a call is a pure        *)
(* operator from the state before it to its outcome (return value, state   *)
(* after, driver operations invoked, whether the kernel faulted).          *)
(***************************************************************************)
EXTENDS Integers, Sequences, FiniteSets, TLC

VARIABLES p_files, f_refcount, f_pos, f_mode, f_vnode,
          vn_refcount, vn_mode, vn_len, entries, p_cwd, last

vars == <<p_files, f_refcount, f_pos, f_mode, f_vnode,
          vn_refcount, vn_mode, vn_len, entries, p_cwd, last>>

(***************************************************************************)
(* Bounds of the model.                                                    *)
(***************************************************************************)
\* descriptor slots per process (the build's NFILES, scaled down)
NFILES == 2
\* references the handles may hold beyond their descriptor slots (leaked
\* references, all handles together) before the model stops exploring
MaxLeak == 2
\* largest cursor and file length explored
MaxPos == 1
\* largest byte count passed to do_read and do_write
MaxBytes == 1
\* longest pathname explored
MaxPathLen == 4
\* longest component name the resolver accepts (the build's NAME_LEN,
\* scaled down)
NAME_LEN == 2

(***************************************************************************)
(* Error numbers (errno.h) and the null pointer.                           *)
(***************************************************************************)
ENOENT == 2
EIO == 5
EBADF == 9
EEXIST == 17
ENOTDIR == 20
EISDIR == 21
EINVAL == 22
EMFILE == 24
ENAMETOOLONG == 36
ENOTEMPTY == 39

NULL == 0

\* a pathname this long is refused (the build's MAXPATHLEN, scaled down)
MAXPATHLEN == MaxPathLen + 3

\* a pointer converted to int is no error number: its magnitude lies
\* beyond the largest of them
PtrBase == ENOTEMPTY + 1

SEEK_SET == 0
SEEK_CUR == 1
SEEK_END == 2

Fds == 0 .. (NFILES - 1)

\* the two file_t objects
H1 == 1
H2 == H1 + 1
Files == {H1, H2}

(***************************************************************************)
(* The vnodes: the root directory, /a, /a/b, the regular file /a/f, and    *)
(* one vnode the driver has not allocated yet.                             *)
(***************************************************************************)
vfs_root_vn == 1
VnA == vfs_root_vn + 1
VnB == VnA + 1
VnF == VnB + 1
VnFree == VnF + 1
Vnodes == {vfs_root_vn, VnA, VnB, VnF, VnFree}

S_ISDIR(mode) == mode = "dir"

FMODE_ISREAD(mode) == "READ" \in mode
FMODE_ISAPPEND(mode) == "APPEND" \in mode

(***************************************************************************)
(* The state as one record, so that a call is an operator on it.           *)
(***************************************************************************)
St == [p_files |-> p_files, f_refcount |-> f_refcount, f_pos |-> f_pos,
       f_mode |-> f_mode, f_vnode |-> f_vnode, vn_refcount |-> vn_refcount,
       vn_mode |-> vn_mode, vn_len |-> vn_len, entries |-> entries,
       p_cwd |-> p_cwd]

\* the outcome of a call that returned
Ret(r, s, d) == [ret |-> r, st |-> s, fault |-> FALSE, drv |-> d]
\* the outcome of a call that dereferenced a null pointer: the kernel
\* page-faults and halts; the state is the one reached so far
Fault(s, d) == [ret |-> 0, st |-> s, fault |-> TRUE, drv |-> d]

(***************************************************************************)
(* Reference counting: vref/vput on vnodes, fget/fput on file handles.     *)
(***************************************************************************)
vref(s, v) == [s EXCEPT !.vn_refcount[v] = @ + 1]

vput(s, v) == [s EXCEPT !.vn_refcount[v] = @ - 1]

\* fget(fd): the handle in slot fd with its reference count raised, or NULL
fget(s, fd) ==
    IF fd \in Fds /\ s.p_files[fd] # NULL
    THEN [f |-> s.p_files[fd],
          st |-> [s EXCEPT !.f_refcount[s.p_files[fd]] = @ + 1]]
    ELSE [f |-> NULL, st |-> s]

\* fput(f): drops one reference; the last one releases the handle's vnode
fput(s, f) ==
    IF s.f_refcount[f] - 1 = 0
    THEN vput([s EXCEPT !.f_refcount[f] = 0], s.f_vnode[f])
    ELSE [s EXCEPT !.f_refcount[f] = @ - 1]

\* get_empty_fd(curproc): the slots it may return, or -EMFILE when full
get_empty_fd(s) ==
    IF \E fd \in Fds : s.p_files[fd] = NULL
    THEN {fd \in Fds : s.p_files[fd] = NULL}
    ELSE {-EMFILE}

\* the number of descriptor slots of curproc that point to handle f
Slots(s, f) == Cardinality({fd \in Fds : s.p_files[fd] = f})

(***************************************************************************)
(* The driver's read, write and readdir: what they may return for a        *)
(* request of n bytes (a byte count, or a negative error).  A call's drv is *)
(* the sequence of driver operations it invoked, each a tuple of the       *)
(* operation's name and arguments: <<"read", offset>>, <<"write", offset>>,*)
(* <<"create", dir, name>> and so on.                                      *)
(***************************************************************************)
DriverBytes(n) == (0 .. n) \cup {-EIO}

\* sizeof(dirent_t): an inode number, an offset and a name of NAME_LEN + 1
\* characters
sizeof_dirent == NAME_LEN + 9

\* what the driver's readdir may return: the size of the entry it copied
\* out, 0 at the end of the directory, or a negative error
ReaddirBytes == {0, sizeof_dirent, -EIO}


(***************************************************************************)
(* do_lseek.  The handle is compared with fget's result, never assigned:   *)
(* (file == fget(fd)) == NULL.  file stays NULL, so the test is true       *)
(* exactly when fget returned a handle.                                    *)
(***************************************************************************)
lseek_switch(s, file, offset, whence) ==
    LET len == s.vn_len[s.f_vnode[file]] IN
    IF whence = SEEK_SET
    THEN IF offset < 0
         THEN Ret(-EINVAL, fput(s, file), <<>>)
         ELSE Ret(offset, fput([s EXCEPT !.f_pos[file] = offset], file), <<>>)
    ELSE IF whence = SEEK_CUR
    THEN IF s.f_pos[file] + offset < 0
         THEN Ret(-EINVAL, fput(s, file), <<>>)
         ELSE Ret(s.f_pos[file] + offset,
                  fput([s EXCEPT !.f_pos[file] = @ + offset], file), <<>>)
    ELSE IF whence = SEEK_END
    THEN IF offset > len
         THEN Ret(-EINVAL, fput(s, file), <<>>)
         ELSE Ret(len - offset,
                  fput([s EXCEPT !.f_pos[file] = len - offset], file), <<>>)
    ELSE Ret(-EINVAL, fput(s, file), <<>>)

do_lseek(s, fd, offset, whence) ==
    IF ~(fd >= 0 /\ fd < NFILES) THEN Ret(-EBADF, s, <<>>)
    ELSE LET file == NULL
             g == fget(s, fd)
         IN IF (IF file = g.f THEN 1 ELSE 0) = NULL
            THEN Ret(-EBADF, g.st, <<>>)
            ELSE IF file = NULL
                 THEN Fault(g.st, <<>>)
                 ELSE lseek_switch(g.st, file, offset, whence)

(***************************************************************************)
(* do_read                                                                 *)
(***************************************************************************)
\* do_read without the test of the open mode
do_read_nomode(s, fd, nbytes, dret) ==
    IF ~(fd >= 0 /\ fd < NFILES) THEN Ret(-EBADF, s, <<>>)
    ELSE LET g == fget(s, fd) IN
         IF g.f = NULL THEN Ret(-EBADF, g.st, <<>>)
         ELSE IF S_ISDIR(s.vn_mode[s.f_vnode[g.f]])
         THEN Ret(-EISDIR, fput(g.st, g.f), <<>>)
         ELSE Ret(dret,
                  fput([g.st EXCEPT !.f_pos[g.f] = @ + dret], g.f),
                  <<<<"read", g.st.f_pos[g.f]>>>>)

do_read(s, fd, nbytes, dret) ==
    IF ~(fd >= 0 /\ fd < NFILES) THEN Ret(-EBADF, s, <<>>)
    ELSE LET g == fget(s, fd) IN
         IF g.f = NULL THEN Ret(-EBADF, g.st, <<>>)
         ELSE IF ~FMODE_ISREAD(s.f_mode[g.f])
         THEN Ret(-EBADF, fput(g.st, g.f), <<>>)
         ELSE IF S_ISDIR(s.vn_mode[s.f_vnode[g.f]])
         THEN Ret(-EISDIR, fput(g.st, g.f), <<>>)
         ELSE Ret(dret,
                  fput([g.st EXCEPT !.f_pos[g.f] = @ + dret], g.f),
                  <<<<"read", g.st.f_pos[g.f]>>>>)

(***************************************************************************)
(* do_write.  The mode test is FMODE_ISREAD: a readable handle is refused. *)
(***************************************************************************)
write_tail(s, file, dret) ==
    Ret(dret, fput([s EXCEPT !.f_pos[file] = @ + dret], file),
        <<<<"write", s.f_pos[file]>>>>)

do_write(s, fd, nbytes, dret) ==
    IF ~(fd >= 0 /\ fd < NFILES) THEN Ret(-EBADF, s, <<>>)
    ELSE LET g == fget(s, fd) IN
         IF g.f = NULL THEN Ret(-EBADF, g.st, <<>>)
         ELSE IF FMODE_ISREAD(s.f_mode[g.f])
         THEN Ret(-EBADF, fput(g.st, g.f), <<>>)
         ELSE IF FMODE_ISAPPEND(s.f_mode[g.f])
         THEN LET r == do_lseek(g.st, fd, 0, SEEK_END) IN
              IF r.fault THEN r
              ELSE IF r.ret < 0 THEN Ret(r.ret, fput(r.st, g.f), <<>>)
              ELSE write_tail(r.st, g.f, dret)
         ELSE write_tail(g.st, g.f, dret)

(***************************************************************************)
(* do_close: fget, one fput, and the slot is zeroed.                       *)
(***************************************************************************)
\* do_close that leaves the slot as it was
do_close_keepslot(s, fd) ==
    IF ~(fd >= 0 /\ fd < NFILES) THEN Ret(-EBADF, s, <<>>)
    ELSE LET g == fget(s, fd) IN
         IF g.f = NULL THEN Ret(-EBADF, g.st, <<>>)
         ELSE Ret(0, fput(g.st, g.f), <<>>)

do_close(s, fd) ==
    IF ~(fd >= 0 /\ fd < NFILES) THEN Ret(-EBADF, s, <<>>)
    ELSE LET g == fget(s, fd) IN
         IF g.f = NULL THEN Ret(-EBADF, g.st, <<>>)
         ELSE Ret(0, [fput(g.st, g.f) EXCEPT !.p_files[fd] = NULL], <<>>)

(***************************************************************************)
(* do_dup: id is the value get_empty_fd returns.                           *)
(***************************************************************************)
\* do_dup that returns the allocator's error without the fput
do_dup_nofput(s, fd, id) ==
    IF ~(fd >= 0 /\ fd < NFILES) THEN Ret(-EBADF, s, <<>>)
    ELSE LET g == fget(s, fd) IN
         IF g.f = NULL THEN Ret(-EBADF, g.st, <<>>)
         ELSE IF id < 0 THEN Ret(id, g.st, <<>>)
         ELSE Ret(id, [g.st EXCEPT !.p_files[id] = g.st.p_files[fd]], <<>>)

\* do_dup that assigns slot id to itself: p_files[id] = p_files[id]
do_dup_noinstall(s, fd, id) ==
    IF ~(fd >= 0 /\ fd < NFILES) THEN Ret(-EBADF, s, <<>>)
    ELSE LET g == fget(s, fd) IN
         IF g.f = NULL THEN Ret(-EBADF, g.st, <<>>)
         ELSE IF id < 0 THEN Ret(id, fput(g.st, g.f), <<>>)
         ELSE Ret(id, [g.st EXCEPT !.p_files[id] = g.st.p_files[id]], <<>>)

do_dup(s, fd, id) ==
    IF ~(fd >= 0 /\ fd < NFILES) THEN Ret(-EBADF, s, <<>>)
    ELSE LET g == fget(s, fd) IN
         IF g.f = NULL THEN Ret(-EBADF, g.st, <<>>)
         ELSE IF id < 0 THEN Ret(id, fput(g.st, g.f), <<>>)
         ELSE Ret(id, [g.st EXCEPT !.p_files[id] = g.st.p_files[fd]], <<>>)

(***************************************************************************)
(* do_dup2                                                                 *)
(***************************************************************************)
\* do_dup2 that returns from the nfd = ofd branch without the fput
do_dup2_nofput(s, ofd, nfd) ==
    IF ~(ofd >= 0 /\ ofd < NFILES) \/ ~(nfd >= 0 /\ nfd < NFILES)
    THEN Ret(-EBADF, s, <<>>)
    ELSE LET g == fget(s, ofd) IN
         IF g.f = NULL THEN Ret(-EBADF, g.st, <<>>)
         ELSE IF g.st.p_files[nfd] # NULL
         THEN IF nfd # ofd
              THEN LET c == do_close(g.st, nfd) IN
                   Ret(nfd, [c.st EXCEPT !.p_files[nfd] = c.st.p_files[ofd]],
                       <<>>)
              ELSE Ret(ofd, g.st, <<>>)
         ELSE Ret(nfd, [g.st EXCEPT !.p_files[nfd] = g.st.p_files[ofd]], <<>>)

do_dup2(s, ofd, nfd) ==
    IF ~(ofd >= 0 /\ ofd < NFILES) \/ ~(nfd >= 0 /\ nfd < NFILES)
    THEN Ret(-EBADF, s, <<>>)
    ELSE LET g == fget(s, ofd) IN
         IF g.f = NULL THEN Ret(-EBADF, g.st, <<>>)
         ELSE IF g.st.p_files[nfd] # NULL
         THEN IF nfd # ofd
              THEN LET c == do_close(g.st, nfd) IN
                   Ret(nfd, [c.st EXCEPT !.p_files[nfd] = c.st.p_files[ofd]],
                       <<>>)
              ELSE Ret(ofd, fput(g.st, g.f), <<>>)
         ELSE Ret(nfd, [g.st EXCEPT !.p_files[nfd] = g.st.p_files[ofd]], <<>>)

(***************************************************************************)
(* do_getdent.  Same comparison in place of an assignment as do_lseek; the *)
(* offset handed to readdir is an uninitialised local, not f_pos: offset   *)
(* is the value that local happens to hold.                                *)
(***************************************************************************)
getdent_tail(s, file, offset, dret) ==
    IF ~S_ISDIR(s.vn_mode[s.f_vnode[file]])
    THEN Ret(-ENOTDIR, fput(s, file), <<>>)
    ELSE Ret(IF dret = 0 THEN 0 ELSE sizeof_dirent,
             fput([s EXCEPT !.f_pos[file] = @ + dret], file),
             <<<<"readdir", offset>>>>)

do_getdent(s, fd, offset, dret) ==
    IF ~(fd >= 0 /\ fd < NFILES) THEN Ret(-EBADF, s, <<>>)
    ELSE LET file == NULL
             g == fget(s, fd)
         IN IF (IF file = g.f THEN 1 ELSE 0) = NULL
            THEN Ret(-EBADF, g.st, <<>>)
            ELSE IF file = NULL
                 THEN Fault(g.st, <<>>)
                 ELSE getdent_tail(g.st, file, offset, dret)

(***************************************************************************)
(* The driver's directory operations (vn_ops->lookup, vn_ops->create).     *)
(***************************************************************************)
\* the directory that holds directory dir; the root holds itself
DrvParent(s, dir) ==
    IF \E e \in s.entries : e[3] = dir
    THEN (CHOOSE e \in s.entries : e[3] = dir)[1]
    ELSE dir

\* the child of directory dir called name, or NULL; the driver resolves
\* "." to dir itself and ".." to the directory that holds dir
DrvChild(s, dir, name) ==
    IF name = <<".">> THEN dir
    ELSE IF name = <<".", ".">> THEN DrvParent(s, dir)
    ELSE IF \E e \in s.entries : e[1] = dir /\ e[2] = name
    THEN (CHOOSE e \in s.entries : e[1] = dir /\ e[2] = name)[3]
    ELSE NULL

\* what becomes of the vnode* the driver's lookup stores through the
\* uninitialised pointer lookup() hands it: it lands in the caller's
\* result ("stored"), elsewhere ("lost"), or on an unmapped page ("fault")
LookupStores == {"stored", "lost", "fault"}

\* the outcome of the k-th driver lookup of a call that finds its entry:
\* the first ub.n of them store into the result, the next one does ub.dev
StoreOf(ub, k) == IF k <= ub.n THEN "stored" ELSE ub.dev

(***************************************************************************)
(* lookup(dir, name, len, result).  result is the caller's variable; k     *)
(* counts the driver lookups that found their entry so far.                *)
(***************************************************************************)
LRet(r, s, res, k) == [ret |-> r, st |-> s, result |-> res, k |-> k,
                       fault |-> FALSE]

lookup(s, dir, name, len, result, ub, k) ==
    IF dir = NULL \/ len = 0 THEN LRet(-ENOENT, s, result, k)
    ELSE IF ~S_ISDIR(s.vn_mode[dir]) THEN LRet(-ENOTDIR, s, result, k)
    ELSE LET child == DrvChild(s, dir, name) IN
         IF child = NULL THEN LRet(-ENOENT, s, result, k)
         ELSE LET s1 == vref(s, child)
                  how == StoreOf(ub, k + 1)
              IN IF how = "fault"
                 THEN [LRet(0, s1, result, k + 1) EXCEPT !.fault = TRUE]
                 ELSE LRet(0, s1, IF how = "stored" THEN child ELSE result,
                           k + 1)

(***************************************************************************)
(* dir_namev(pathname, namelen, name, base, res_vnode).  A pathname is a   *)
(* sequence of characters; index i here is the C index plus one.  After a  *)
(* lookup that succeeds the loop takes parent = next and goes round with i *)
(* where it was: the same component is looked up again, in the node just   *)
(* found.  When that node is parent itself ("." or ".." at the root) the   *)
(* loop never ends; such a call, like one that page-faults, never returns  *)
(* and is recorded with fault = TRUE.                                      *)
(***************************************************************************)
NRet(r, s, res, name, namelen, k) ==
    [ret |-> r, st |-> s, res_vnode |-> res, name |-> name,
     namelen |-> namelen, k |-> k, fault |-> FALSE, drv |-> <<>>]

NFault(s, k) ==
    [ret |-> 0, st |-> s, res_vnode |-> NULL, name |-> <<>>, namelen |-> 0,
     k |-> k, fault |-> TRUE, drv |-> <<>>]

\* the index after the component that starts at i
RECURSIVE EndIndex(_, _)
EndIndex(pathname, j) ==
    IF j <= Len(pathname) /\ pathname[j] # "/"
    THEN EndIndex(pathname, j + 1)
    ELSE j

RECURSIVE namev_walk(_, _, _, _, _, _)
namev_walk(s, pathname, i, parent, ub, k) ==
    IF ~(i <= Len(pathname))
    THEN NRet(0, s, parent, <<>>, 0, k)
    ELSE IF pathname[i] = "/"
    THEN namev_walk(s, pathname, i + 1, parent, ub, k)
    ELSE LET end_index == EndIndex(pathname, i + 1)
             tmp_name == SubSeq(pathname, i, end_index - 1)
             tmp_name_len == end_index - i
         IN IF tmp_name_len > NAME_LEN
            THEN IF parent = NULL THEN NFault(s, k)
                 ELSE NRet(-ENAMETOOLONG, vput(s, parent), NULL, <<>>, 0, k)
            ELSE IF end_index = Len(pathname) + 1
            THEN IF parent = NULL THEN NFault(s, k)
                 ELSE IF ~S_ISDIR(s.vn_mode[parent])
                 THEN NRet(-ENOTDIR, vput(s, parent), NULL, <<>>, 0, k)
                 ELSE NRet(0, s, parent, tmp_name, tmp_name_len, k)
            ELSE LET l == lookup(s, parent, tmp_name, tmp_name_len, NULL,
                                 ub, k)
                 IN IF l.fault THEN NFault(l.st, l.k)
                    ELSE IF l.ret < 0
                    THEN NRet(l.ret, l.st, NULL, <<>>, 0, l.k)
                    ELSE IF l.result = parent
                    THEN NFault(l.st, l.k)
                    ELSE namev_walk(l.st, pathname, i, l.result, ub, l.k)

dir_namev(s, pathname, base, res0, ub, k) ==
    IF Len(pathname) = 0 THEN NRet(-ENOENT, s, res0, <<>>, 0, k)
    ELSE IF Len(pathname) >= MAXPATHLEN
    THEN NRet(-ENAMETOOLONG, s, res0, <<>>, 0, k)
    ELSE LET parent == IF base = NULL THEN s.p_cwd
                       ELSE IF pathname[1] = "/" THEN vfs_root_vn
                       ELSE base
         IN namev_walk(vref(s, parent), pathname, 1, parent, ub, k)

(***************************************************************************)
(* The driver's create: it fails with an error, or allocates a vnode for   *)
(* the new file, enters it in dir and returns it with one reference.       *)
(***************************************************************************)
DrvCreate(s, dir, name, len, cret) ==
    IF cret = "ok" /\ len > 0 /\ s.vn_mode[VnFree] = "none"
    THEN [ret |-> 0, result |-> VnFree,
          st |-> [s EXCEPT !.vn_mode[VnFree] = "reg",
                           !.vn_refcount[VnFree] = 1,
                           !.entries = @ \cup {<<dir, name, VnFree>>}]]
    ELSE [ret |-> -EIO, result |-> NULL, st |-> s]

(***************************************************************************)
(* open_namev(pathname, flag, res_vnode, base).  It hands dir_namev a NULL *)
(* base, never writes *res_vnode (res0 is what the caller put there),      *)
(* returns the target pointer itself when the file exists, and runs off    *)
(* its end when create succeeds (junk is what the caller then reads).      *)
(***************************************************************************)
\* the value of a local variable, computed once where it is assigned
Only(S) == CHOOSE x \in S : TRUE

PtrAsInt(v, junk) == IF junk < 0 THEN -(PtrBase + v) ELSE PtrBase + v

ORet(r, s, res, d) ==
    [ret |-> r, st |-> s, res_vnode |-> res, fault |-> FALSE, drv |-> d]

OFault(s, res, d) ==
    [ret |-> 0, st |-> s, res_vnode |-> res, fault |-> TRUE, drv |-> d]

\* after ret = lookup(dir, name, name_len, &target)
open_after_lookup(l, dir, name, namelen, flag, res0, cret, junk) ==
    IF l.fault THEN OFault(l.st, res0, <<>>)
    ELSE IF l.ret = 0
    THEN ORet(IF l.result = NULL THEN 0 ELSE PtrAsInt(l.result, junk),
              vput(l.st, dir), res0, <<>>)
    ELSE IF l.ret = -ENOENT
    THEN IF "O_CREAT" \in flag
         THEN IF ~S_ISDIR(l.st.vn_mode[dir])
              THEN OFault(l.st, res0, <<>>)
              ELSE LET c == DrvCreate(l.st, dir, name, namelen, cret)
                   IN IF c.ret < 0
                      THEN ORet(c.ret,
                                vput(IF c.result # NULL
                                     THEN vput(c.st, c.result)
                                     ELSE c.st, dir),
                                res0, <<<<"create", dir, name>>>>)
                      ELSE ORet(junk, c.st, res0, <<<<"create", dir, name>>>>)
         ELSE ORet(l.ret, vput(l.st, dir), res0, <<>>)
    ELSE ORet(l.ret, l.st, res0, <<>>)

\* after ret = dir_namev(pathname, &name_len, &name, NULL, &dir)
open_after_namev(d, flag, res0, ub, cret, junk) ==
    LET dir == d.res_vnode IN
    IF d.fault THEN OFault(d.st, res0, <<>>)
    ELSE IF d.ret < 0
    THEN ORet(d.ret, IF dir # NULL THEN vput(d.st, dir) ELSE d.st, res0,
              <<>>)
    ELSE IF dir = NULL THEN OFault(d.st, res0, <<>>)
    ELSE Only({open_after_lookup(l, dir, d.name, d.namelen, flag, res0,
                                 cret, junk) :
                 l \in {lookup(d.st, dir, d.name, d.namelen, NULL, ub,
                               d.k)}})

open_namev(s, pathname, flag, res0, base, ub, cret, junk) ==
    Only({open_after_namev(d, flag, res0, ub, cret, junk) :
            d \in {dir_namev(s, pathname, NULL, NULL, ub, 0)}})

(***************************************************************************)
(* The driver's mkdir, rmdir, unlink and link.  fail is TRUE when the      *)
(* driver fails for a reason of its own (-EIO).  Each returns its result   *)
(* and the state it leaves.                                                *)
(***************************************************************************)
DRet(r, s) == [ret |-> r, st |-> s]

DrvMkdir(s, dir, name, fail) ==
    IF fail THEN DRet(-EIO, s)
    ELSE IF Len(name) = 0 THEN DRet(-ENOENT, s)
    ELSE IF DrvChild(s, dir, name) # NULL THEN DRet(-EEXIST, s)
    ELSE IF s.vn_mode[VnFree] # "none" THEN DRet(-EIO, s)
    ELSE DRet(0, [s EXCEPT !.vn_mode[VnFree] = "dir",
                           !.entries = @ \cup {<<dir, name, VnFree>>}])

DrvRmdir(s, dir, name, fail) ==
    LET child == DrvChild(s, dir, name) IN
    IF fail THEN DRet(-EIO, s)
    ELSE IF Len(name) = 0 \/ child = NULL THEN DRet(-ENOENT, s)
    ELSE IF ~S_ISDIR(s.vn_mode[child]) THEN DRet(-ENOTDIR, s)
    ELSE IF \E e \in s.entries : e[1] = child THEN DRet(-ENOTEMPTY, s)
    ELSE DRet(0, [s EXCEPT !.entries = @ \ {<<dir, name, child>>}])

DrvUnlink(s, dir, name, fail) ==
    LET child == DrvChild(s, dir, name) IN
    IF fail THEN DRet(-EIO, s)
    ELSE IF Len(name) = 0 \/ child = NULL THEN DRet(-ENOENT, s)
    ELSE DRet(0, [s EXCEPT !.entries = @ \ {<<dir, name, child>>}])

DrvLink(s, from, dir, name, fail) ==
    IF fail THEN DRet(-EIO, s)
    ELSE IF Len(name) = 0 THEN DRet(-ENOENT, s)
    ELSE IF DrvChild(s, dir, name) # NULL THEN DRet(-EEXIST, s)
    ELSE DRet(0, [s EXCEPT !.entries = @ \cup {<<dir, name, from>>}])

(***************************************************************************)
(* The name buffer of do_mkdir, do_rmdir, do_unlink and do_link.  They     *)
(* hand dir_namev the buffer itself (nameptr, or &name of an array) where  *)
(* it expects the address of a pointer, so dir_namev copies the leaf name  *)
(* through whatever the first bytes of the uninitialised buffer hold.  nb  *)
(* is what comes of it: the copy lands in the buffer ("stored"), elsewhere *)
(* ("lost": the caller reads buf, what the buffer held), or on an unmapped *)
(* page ("fault").  A path that ends in a separator copies nothing.        *)
(***************************************************************************)
NameCopyFaults(d, nb) == d.ret = 0 /\ d.namelen > 0 /\ nb.how = "fault"

CallerName(d, nb) ==
    IF d.namelen > 0 /\ nb.how = "stored" THEN d.name ELSE nb.buf

\* the outcome of a path call: as open_namev's, without a result vnode
SRet(r, s, d) == ORet(r, s, NULL, d)

SFault(s, d) == OFault(s, NULL, d)

(***************************************************************************)
(* do_mkdir(path).  node_file is an uninitialised local that lookup never  *)
(* writes (nf0 is what it holds, unless the driver's store lands in it);   *)
(* mkdir is called when the leaf was found, an error of lookup is returned *)
(* without the vput of dir, and the function ends without a return value.  *)
(***************************************************************************)
\* after ret = lookup(dir, name, name_len, &node_file)
mkdir_after_lookup(l, dir, name, fail, junk) ==
    LET node_file == l.result IN
    IF l.fault THEN SFault(l.st, <<>>)
    ELSE IF l.ret = 0
    THEN IF node_file = NULL \/ dir = NULL
            \/ ~S_ISDIR(l.st.vn_mode[node_file])
         THEN SFault(l.st, <<>>)
         ELSE LET m == DrvMkdir(l.st, dir, name, fail) IN
              SRet(junk, vput(vput(m.st, dir), node_file),
                   <<<<"mkdir", dir, name, m.ret>>>>)
    ELSE IF l.ret < 0 THEN SRet(l.ret, l.st, <<>>)
    ELSE SRet(-EEXIST, l.st, <<>>)

\* after ret = dir_namev(path, &name_len, nameptr, NULL, &dir)
mkdir_after_namev(d, ub, nb, nf0, fail, junk) ==
    LET dir == d.res_vnode
        name == CallerName(d, nb)
    IN IF d.fault THEN SFault(d.st, <<>>)
       ELSE IF d.ret < 0
       THEN SRet(d.ret, IF dir # NULL THEN vput(d.st, dir) ELSE d.st, <<>>)
       ELSE IF NameCopyFaults(d, nb) THEN SFault(d.st, <<>>)
       ELSE Only({mkdir_after_lookup(l, dir, name, fail, junk) :
                    l \in {lookup(d.st, dir, name, d.namelen, nf0, ub,
                                  d.k)}})

do_mkdir(s, path, ub, nb, nf0, fail, junk) ==
    IF Len(path) = 0 THEN SRet(-ENOENT, s, <<>>)
    ELSE Only({mkdir_after_namev(d, ub, nb, nf0, fail, junk) :
                 d \in {dir_namev(s, path, NULL, NULL, ub, 0)}})

(***************************************************************************)
(* do_rmdir(path).  It returns node, the parent's pointer, as its int.     *)
(***************************************************************************)
\* after ret = dir_namev(path, &name_len, nameptr, NULL, &node)
rmdir_after_namev(d, nb, fail, junk) ==
    LET node == d.res_vnode
        name == CallerName(d, nb)
    IN IF d.fault THEN SFault(d.st, <<>>)
       ELSE IF d.ret < 0
       THEN SRet(d.ret, IF node # NULL THEN vput(d.st, node) ELSE d.st,
                 <<>>)
       ELSE IF NameCopyFaults(d, nb) THEN SFault(d.st, <<>>)
       ELSE IF node = NULL THEN SRet(-ENOENT, d.st, <<>>)
       ELSE IF ~S_ISDIR(d.st.vn_mode[node])
       THEN SRet(-ENOTDIR, vput(d.st, node), <<>>)
       ELSE IF name = <<".">>
       THEN SRet(-EINVAL, vput(d.st, node), <<>>)
       ELSE IF name = <<".", ".">>
       THEN SRet(-ENOTEMPTY, vput(d.st, node), <<>>)
       ELSE LET r == DrvRmdir(d.st, node, name, fail) IN
            SRet(PtrAsInt(node, junk), vput(r.st, node),
                 <<<<"rmdir", node, name, r.ret>>>>)

do_rmdir(s, path, ub, nb, fail, junk) ==
    IF Len(path) = 0 THEN SRet(-ENOENT, s, <<>>)
    ELSE Only({rmdir_after_namev(d, nb, fail, junk) :
                 d \in {dir_namev(s, path, NULL, NULL, ub, 0)}})

(***************************************************************************)
(* do_unlink(path).  The S_ISDIR test is made on node, the parent that     *)
(* dir_namev returned, and the return value is node's pointer.             *)
(***************************************************************************)
\* after ret = dir_namev(path, &name_len, &name, NULL, &node)
unlink_after_namev(d, nb, fail, junk) ==
    LET node == d.res_vnode
        name == CallerName(d, nb)
    IN IF d.fault THEN SFault(d.st, <<>>)
       ELSE IF d.ret < 0
       THEN SRet(d.ret, IF node # NULL THEN vput(d.st, node) ELSE d.st,
                 <<>>)
       ELSE IF NameCopyFaults(d, nb) THEN SFault(d.st, <<>>)
       ELSE IF node = NULL THEN SRet(-ENOENT, d.st, <<>>)
       ELSE IF S_ISDIR(d.st.vn_mode[node])
       THEN SRet(-EISDIR, vput(d.st, node), <<>>)
       ELSE LET r == DrvUnlink(d.st, node, name, fail) IN
            SRet(PtrAsInt(node, junk), vput(r.st, node),
                 <<<<"unlink", node, name, r.ret>>>>)

do_unlink(s, path, ub, nb, fail, junk) ==
    IF Len(path) = 0 THEN SRet(-ENOENT, s, <<>>)
    ELSE Only({unlink_after_namev(d, nb, fail, junk) :
                 d \in {dir_namev(s, path, NULL, NULL, ub, 0)}})

(***************************************************************************)
(* do_link(from, to).  from_node is what open_namev left in *res_vnode:    *)
(* the NULL it was initialised to.  The source must be a directory, an     *)
(* error of the lookup of to's leaf (-ENOENT included) is returned, and a  *)
(* leaf that was found returns -EEXIST without a vput.                     *)
(***************************************************************************)
\* after l = lookup(to_node, nameptr, name_len, &tmp_node)
link_after_lookup(l, from_node, to_node, name, fail) ==
    LET s1 == vput(l.st, from_node)
        s2 == IF to_node # NULL THEN vput(s1, to_node) ELSE s1
        s3 == IF l.result # NULL THEN vput(s2, l.result) ELSE s2
    IN IF l.fault THEN SFault(l.st, <<>>)
       ELSE IF l.ret < 0 THEN SRet(l.ret, s3, <<>>)
       ELSE IF l.ret = 0 THEN SRet(-EEXIST, l.st, <<>>)
       ELSE LET r == DrvLink(l.st, from_node, to_node, name, fail) IN
            SRet(r.ret, vput(vput(r.st, from_node), to_node),
                 <<<<"link", from_node, to_node, name, r.ret>>>>)

\* after d = dir_namev(to, &name_len, nameptr, NULL, &to_node)
link_after_namev(d, from_node, ub, nb, fail) ==
    LET to_node == d.res_vnode
        name == CallerName(d, nb)
    IN IF d.fault THEN SFault(d.st, <<>>)
       ELSE IF d.ret < 0
       THEN SRet(d.ret,
                 IF to_node # NULL
                 THEN vput(vput(d.st, from_node), to_node)
                 ELSE vput(d.st, from_node), <<>>)
       ELSE IF NameCopyFaults(d, nb) THEN SFault(d.st, <<>>)
       ELSE Only({link_after_lookup(l, from_node, to_node, name, fail) :
                    l \in {lookup(d.st, to_node, name, d.namelen, NULL, ub,
                                  d.k)}})

\* after o = open_namev(from, O_RDONLY, &from_node, NULL)
link_after_open(o, to, ub, nb, fail) ==
    LET from_node == o.res_vnode IN
    IF o.fault THEN SFault(o.st, <<>>)
    ELSE IF o.ret < 0
    THEN SRet(o.ret,
              IF from_node # NULL THEN vput(o.st, from_node) ELSE o.st,
              <<>>)
    ELSE IF from_node = NULL THEN SFault(o.st, <<>>)
    ELSE IF ~S_ISDIR(o.st.vn_mode[from_node])
    THEN SRet(-ENOTDIR, vput(o.st, from_node), <<>>)
    ELSE Only({link_after_namev(d, from_node, ub, nb, fail) :
                 d \in {dir_namev(o.st, to, NULL, NULL, ub, 0)}})

do_link(s, from, to, ub, nb, fail, junk) ==
    IF Len(from) = 0 \/ Len(to) = 0 THEN SRet(-ENOENT, s, <<>>)
    ELSE Only({link_after_open(o, to, ub, nb, fail) :
                 o \in {open_namev(s, from, {}, NULL, NULL, ub, "fail",
                                   junk)}})

(***************************************************************************)
(* do_rename(oldname, newname): do_link(newname, oldname), and when that   *)
(* did not fail, do_unlink(oldname).  Its drv is the sequence of the calls *)
(* it made, <<"do_link", from, to, result>> and <<"do_unlink", path,       *)
(* result>>, each followed by the driver operations of that call.          *)
(***************************************************************************)
\* after ret = do_unlink(oldname)
rename_after_unlink(u, oldname, before) ==
    LET calls == before \o <<<<"do_unlink", oldname, u.ret>>>> \o u.drv IN
    IF u.fault THEN SFault(u.st, calls) ELSE SRet(u.ret, u.st, calls)

\* do_rename that goes on to do_unlink(oldname) whatever do_link returned
rename_unlinks_anyway(k, oldname, newname, ub, nb, fail, junk) ==
    LET calls == <<<<"do_link", newname, oldname, k.ret>>>> \o k.drv IN
    IF k.fault THEN SFault(k.st, calls)
    ELSE Only({rename_after_unlink(u, oldname, calls) :
                 u \in {do_unlink(k.st, oldname, ub, nb, fail, junk)}})

\* after ret = do_link(newname, oldname)
rename_after_link(k, oldname, newname, ub, nb, fail, junk) ==
    LET calls == <<<<"do_link", newname, oldname, k.ret>>>> \o k.drv IN
    IF k.fault THEN SFault(k.st, calls)
    ELSE IF k.ret < 0 THEN SRet(k.ret, k.st, calls)
    ELSE Only({rename_after_unlink(u, oldname, calls) :
                 u \in {do_unlink(k.st, oldname, ub, nb, fail, junk)}})

do_rename(s, oldname, newname, ub, nb, fail, junk) ==
    Only({rename_after_link(k, oldname, newname, ub, nb, fail, junk) :
            k \in {do_link(s, newname, oldname, ub, nb, fail, junk)}})

(***************************************************************************)
(* do_chdir(path).  node is what open_namev left in *res_vnode: the NULL   *)
(* it was initialised to.  A node that is a directory is refused with      *)
(* -ENOTDIR; any other becomes the cwd.                                    *)
(***************************************************************************)
chdir_after_open(o) ==
    LET node == o.res_vnode IN
    IF o.fault THEN SFault(o.st, <<>>)
    ELSE IF o.ret < 0
    THEN SRet(o.ret, IF node # NULL THEN vput(o.st, node) ELSE o.st, <<>>)
    ELSE IF node = NULL THEN SFault(o.st, <<>>)
    ELSE IF S_ISDIR(o.st.vn_mode[node])
    THEN SRet(-ENOTDIR, vput(o.st, node), <<>>)
    ELSE SRet(0, vput([o.st EXCEPT !.p_cwd = node], o.st.p_cwd), <<>>)

do_chdir(s, path, ub, junk) ==
    IF Len(path) = 0 THEN SRet(-ENOENT, s, <<>>)
    ELSE Only({chdir_after_open(o) :
                 o \in {open_namev(s, path, {"O_RDONLY"}, NULL, NULL, ub,
                                   "fail", junk)}})

(***************************************************************************)
(* do_stat(path, buf).  ret = open_namev(...) < 0 gives ret the value of   *)
(* the comparison, 1 or 0, and the if tests that value.  result is what    *)
(* open_namev left in *res_vnode; KASSERT(result) halts the kernel when it *)
(* is NULL.  sret is what the driver's stat returns.                       *)
(***************************************************************************)
stat_after_open(o, sret) ==
    LET result == o.res_vnode
        ret == IF o.ret < 0 THEN 1 ELSE 0
    IN IF o.fault THEN SFault(o.st, <<>>)
       ELSE IF ret # 0
       THEN SRet(ret, IF result # NULL THEN vput(o.st, result) ELSE o.st,
                 <<>>)
       ELSE IF result = NULL THEN SFault(o.st, <<>>)
       ELSE SRet(sret, vput(o.st, result), <<<<"stat", result, sret>>>>)

do_stat(s, path, ub, junk, sret) ==
    IF Len(path) = 0 THEN SRet(-ENOENT, s, <<>>)
    ELSE Only({stat_after_open(o, sret) :
                 o \in {open_namev(s, path, {"O_RDWR"}, NULL, NULL, ub,
                                   "fail", junk)}})

(***************************************************************************)
(* The state machine.  last records the call that led to the state: its    *)
(* name, arguments, return value, the driver operations it invoked and     *)
(* whether it faulted.  follows is "do_close" or "do_dup" when the call is *)
(* a do_close(fd) that comes right after a successful do_close(fd) or      *)
(* do_dup(fd) on the same descriptor.  off and whence are do_lseek's       *)
(* arguments, path2 the second pathname of do_link and do_rename.          *)
(***************************************************************************)
NoCall == [op |-> "none", fd |-> NULL, nfd |-> NULL, ret |-> 0,
           fault |-> FALSE, drv |-> <<>>, follows |-> "none", pret |-> 0,
           path |-> <<>>, base |-> NULL, flag |-> {}, res |-> NULL,
           name |-> <<>>, namelen |-> 0, off |-> 0, whence |-> SEEK_SET,
           path2 |-> <<>>]

Follows(op, fd) ==
    IF /\ op = "do_close"
       /\ last.op \in {"do_close", "do_dup"}
       /\ last.fd = fd
       /\ ~last.fault
       /\ last.ret >= 0
    THEN last.op
    ELSE "none"

Call(op, fd, nfd, o) ==
    [NoCall EXCEPT !.op = op, !.fd = fd, !.nfd = nfd, !.ret = o.ret,
                   !.fault = o.fault, !.drv = o.drv,
                   !.follows = Follows(op, fd),
                   !.pret = IF Follows(op, fd) = "none" THEN 0 ELSE last.ret]

\* the record of a resolver call: its pathname, base and flag, and what it
\* left in *res_vnode, *name and *namelen
PathCall(op, pathname, base, flag, o, name, namelen) ==
    [NoCall EXCEPT !.op = op, !.ret = o.ret, !.fault = o.fault,
                   !.drv = o.drv, !.path = pathname, !.base = base,
                   !.flag = flag, !.res = o.res_vnode, !.name = name,
                   !.namelen = namelen]

\* the references handle f holds beyond its descriptor slots
Leak(s, f) == s.f_refcount[f] - Slots(s, f)

\* the states the model explores: bounded leaks and cursors
Bounded(s) ==
    /\ Leak(s, H1) + Leak(s, H2) <= MaxLeak
    /\ \A f \in Files : s.f_pos[f] >= -EIO /\ s.f_pos[f] <= MaxPos

\* a call with outcome o is taken: the kernel has not halted
Step(o, rec) ==
    /\ ~last.fault
    /\ Bounded(o.st)
    /\ p_files' = o.st.p_files
    /\ f_refcount' = o.st.f_refcount
    /\ f_pos' = o.st.f_pos
    /\ f_mode' = o.st.f_mode
    /\ f_vnode' = o.st.f_vnode
    /\ vn_refcount' = o.st.vn_refcount
    /\ vn_mode' = o.st.vn_mode
    /\ vn_len' = o.st.vn_len
    /\ entries' = o.st.entries
    /\ p_cwd' = o.st.p_cwd
    /\ last' = rec

FdArgs == -1 .. NFILES
Whences == {SEEK_SET, SEEK_CUR, SEEK_END, SEEK_END + 1}
Offsets == {-1, 1}

DoRead ==
    \E fd \in FdArgs, n \in 1 .. MaxBytes : \E dret \in DriverBytes(n) :
        \E o \in {do_read(St, fd, n, dret)} :
            Step(o, Call("do_read", fd, NULL, o))

DoWrite ==
    \E fd \in FdArgs, n \in 1 .. MaxBytes : \E dret \in DriverBytes(n) :
        \E o \in {do_write(St, fd, n, dret)} :
            Step(o, Call("do_write", fd, NULL, o))

DoClose ==
    \E fd \in FdArgs :
        \E o \in {do_close(St, fd)} :
            Step(o, Call("do_close", fd, NULL, o))

DoDup ==
    \E fd \in FdArgs : \E id \in get_empty_fd(St) :
        \E o \in {do_dup(St, fd, id)} :
            Step(o, Call("do_dup", fd, NULL, o))

DoDup2 ==
    \E ofd \in FdArgs, nfd \in FdArgs :
        \E o \in {do_dup2(St, ofd, nfd)} :
            Step(o, Call("do_dup2", ofd, nfd, o))

DoLseek ==
    \E fd \in FdArgs, off \in Offsets, wh \in Whences :
        \E o \in {do_lseek(St, fd, off, wh)} :
        Step(o, [Call("do_lseek", fd, NULL, o) EXCEPT !.off = off,
                                                      !.whence = wh])

DoGetdent ==
    \E fd \in FdArgs, offset \in Offsets : \E dret \in ReaddirBytes :
        \E o \in {do_getdent(St, fd, offset, dret)} :
        Step(o, Call("do_getdent", fd, NULL, o))

(***************************************************************************)
(* The file system before any call: /, /a, /a/b are directories, /a/f is a *)
(* regular file of MaxPos bytes.                                           *)
(***************************************************************************)
InitTree ==
    /\ vn_mode = [v \in Vnodes |->
                    IF v \in {vfs_root_vn, VnA, VnB} THEN "dir"
                    ELSE IF v = VnF THEN "reg" ELSE "none"]
    /\ entries = {<<vfs_root_vn, <<"a">>, VnA>>, <<VnA, <<"b">>, VnB>>,
                  <<VnA, <<"f">>, VnF>>}
    /\ vn_len = [v \in Vnodes |-> IF v = VnF THEN MaxPos ELSE 0]

\* the open modes a handle may have
Modes == {{"READ"}, {"WRITE"}, {"READ", "WRITE"}, {"WRITE", "APPEND"}}

\* what H1 may be open on: the regular file /a/f in any mode, or the
\* directory /a read-only; H2 is open on the directory /a read-only
HandleKinds ==
    {[vn |-> VnF, mode |-> m] : m \in Modes}
    \cup {[vn |-> VnA, mode |-> {"READ"}]}

\* the references held on vnode v: vfs_root_vn, the cwd, and one per handle
\* that a descriptor names
HeldRefs(v, cwd, pf, fv) ==
    (IF v = vfs_root_vn THEN 1 ELSE 0) + (IF v = cwd THEN 1 ELSE 0)
    + Cardinality({f \in Files : fv[f] = v /\ \E fd \in Fds : pf[fd] = f})

\* the handles: H1 of any kind with its cursor at pos1, H2 on /a at 0, each
\* referenced once per slot of the table that names it
InitHandles(pos1) ==
    /\ InitTree
    /\ p_cwd = vfs_root_vn
    /\ \E k \in HandleKinds :
          /\ f_mode = [f \in Files |-> IF f = H1 THEN k.mode ELSE {"READ"}]
          /\ f_vnode = [f \in Files |-> IF f = H1 THEN k.vn ELSE VnA]
    /\ f_refcount = [f \in Files |-> Cardinality({fd \in Fds : p_files[fd] = f})]
    /\ f_pos = [f \in Files |-> IF f = H1 THEN pos1 ELSE 0]
    /\ vn_refcount = [v \in Vnodes |-> HeldRefs(v, p_cwd, p_files, f_vnode)]
    /\ last = NoCall

(***************************************************************************)
(* SpecFiles: every descriptor call, from any descriptor table.            *)
(***************************************************************************)
InitFiles ==
    /\ p_files \in [Fds -> Files \cup {NULL}]
    /\ InitHandles(0)

NextFiles ==
    \/ DoRead
    \/ DoWrite
    \/ DoClose
    \/ DoDup
    \/ DoDup2
    \/ DoLseek
    \/ DoGetdent

SpecFiles == InitFiles /\ [][NextFiles]_vars

(***************************************************************************)
(* SpecTable: the calls that change the descriptor table, from any table,  *)
(* the cursor of H1 at the end of its file.                                *)
(***************************************************************************)
InitTable ==
    /\ p_files \in [Fds -> Files \cup {NULL}]
    /\ InitHandles(MaxPos)

NextTable ==
    \/ DoClose
    \/ DoDup
    \/ DoDup2

SpecTable == InitTable /\ [][NextTable]_vars

(***************************************************************************)
(* SpecIO: the calls that use a descriptor without changing the table,     *)
(* H1 in slot 0 and H2 in slot 1, the other slots empty.                   *)
(***************************************************************************)
InitIO ==
    /\ p_files = [fd \in Fds |-> IF fd = 0 THEN H1
                                 ELSE IF fd = 1 THEN H2 ELSE NULL]
    /\ InitHandles(0)

NextIO ==
    \/ DoRead
    \/ DoWrite
    \/ DoLseek
    \/ DoGetdent

SpecIO == InitIO /\ [][NextIO]_vars

(***************************************************************************)
(* SpecNamev: one call of the resolver, with every pathname of at most     *)
(* MaxPathLen characters, the empty one and one of MAXPATHLEN characters,  *)
(* from a cwd of / or /a, no file open.                                    *)
(***************************************************************************)
Chars == {"/", "a", "b", "f"}

LongPath == [i \in 1 .. MAXPATHLEN |-> "/"]

\* a file c to create in the empty directory /a/b
DeepPath == <<"/", "a", "/", "b", "/", "c">>

\* a path through the regular file /a/f
FilePath == <<"/", "a", "/", "f", "/", "b">>

Paths ==
    UNION {[1 .. n -> Chars] : n \in 0 .. MaxPathLen}
    \cup {LongPath, DeepPath, FilePath}

\* how the uninitialised pointer of lookup() behaves during one call
Stores == {[n |-> n, dev |-> d] : n \in 0 .. 2, d \in {"lost", "fault"}}

\* what a caller may read where no value was returned, and the sign a
\* pointer takes as an int
Junk == {-PtrBase, 0, PtrBase}

\* no call has been made yet: the resolver is explored one call deep, from
\* every initial state
Fresh == last.op = "none"

InitNamev ==
    /\ InitTree
    /\ p_cwd \in {vfs_root_vn, VnA}
    /\ p_files = [fd \in Fds |-> NULL]
    /\ f_mode = [f \in Files |-> {"READ"}]
    /\ f_vnode = [f \in Files |-> VnA]
    /\ f_refcount = [f \in Files |-> 0]
    /\ f_pos = [f \in Files |-> 0]
    /\ vn_refcount = [v \in Vnodes |-> HeldRefs(v, p_cwd, p_files, f_vnode)]
    /\ last = NoCall

DirNamev ==
    /\ Fresh
    /\ \E pathname \in Paths, base \in {NULL, vfs_root_vn, VnA}, ub \in Stores :
        \E o \in {dir_namev(St, pathname, base, NULL, ub, 0)} :
        Step(o, PathCall("dir_namev", pathname, base, {}, o, o.name,
                            o.namelen))

OpenNamev ==
    /\ Fresh
    /\ \E pathname \in Paths, flag \in {{}, {"O_CREAT"}}, ub \in Stores,
          cret \in {"ok", "fail"}, junk \in Junk :
        \E o \in {open_namev(St, pathname, flag, NULL, NULL, ub, cret, junk)} :
        Step(o, PathCall("open_namev", pathname, NULL, flag, o, <<>>, 0))

NextNamev ==
    \/ DirNamev
    \/ OpenNamev

SpecNamev == InitNamev /\ [][NextNamev]_vars

(***************************************************************************)
(* SpecPath: one call of do_mkdir, do_rmdir, do_unlink, do_link, do_rename, *)
(* do_chdir or do_stat, from a cwd of / or /a, no file open.  The          *)
(* pathnames also use the character ".", and are one character shorter     *)
(* than the resolver's.                                                    *)
(***************************************************************************)
SysChars == Chars \cup {"."}

AbsDot == <<"/", "a", "/", ".">>

AbsDotDot == <<"/", "a", "/", ".", ".">>

AbsDir == <<"/", "a", "/", "b">>

AbsFile == <<"/", "a", "/", "f">>

SysPaths ==
    UNION {[1 .. n -> SysChars] : n \in 0 .. (MaxPathLen - 1)}
    \cup {AbsDot, AbsDotDot, AbsDir, AbsFile}

\* the pathnames of do_link
LinkPaths ==
    {q \in SysPaths : Len(q) <= 1} \cup {<<"/", "a">>, AbsDir, AbsFile}

\* what comes of the copy of the leaf name, and what the buffer held
NameCopies ==
    {[how |-> h, buf |-> <<>>] : h \in {"stored", "lost", "fault"}}
    \cup {[how |-> "lost", buf |-> <<".">>]}

\* what an uninitialised vnode pointer may hold: an address that is not
\* mapped, or a vnode's address left on the stack
UninitPtrs == {NULL, vfs_root_vn}

DoMkdir ==
    /\ Fresh
    /\ \E path \in SysPaths, ub \in Stores, nb \in NameCopies,
          nf0 \in UninitPtrs, fail \in BOOLEAN, junk \in Junk :
        \E o \in {do_mkdir(St, path, ub, nb, nf0, fail, junk)} :
        Step(o, PathCall("do_mkdir", path, NULL, {}, o, <<>>, 0))

DoRmdir ==
    /\ Fresh
    /\ \E path \in SysPaths, ub \in Stores, nb \in NameCopies,
          fail \in BOOLEAN, junk \in Junk :
        \E o \in {do_rmdir(St, path, ub, nb, fail, junk)} :
        Step(o, PathCall("do_rmdir", path, NULL, {}, o, <<>>, 0))

DoUnlink ==
    /\ Fresh
    /\ \E path \in SysPaths, ub \in Stores, nb \in NameCopies,
          fail \in BOOLEAN, junk \in Junk :
        \E o \in {do_unlink(St, path, ub, nb, fail, junk)} :
        Step(o, PathCall("do_unlink", path, NULL, {}, o, <<>>, 0))

DoLink ==
    /\ Fresh
    /\ \E from \in LinkPaths, to \in LinkPaths, ub \in Stores,
          nb \in NameCopies, fail \in BOOLEAN, junk \in Junk :
        \E o \in {do_link(St, from, to, ub, nb, fail, junk)} :
        Step(o, [PathCall("do_link", from, NULL, {}, o, <<>>, 0)
                    EXCEPT !.path2 = to])

DoRename ==
    /\ Fresh
    /\ \E oldname \in LinkPaths, newname \in LinkPaths, ub \in Stores,
          nb \in NameCopies, fail \in BOOLEAN, junk \in Junk :
        \E o \in {do_rename(St, oldname, newname, ub, nb, fail, junk)} :
        Step(o, [PathCall("do_rename", oldname, NULL, {}, o, <<>>, 0)
                    EXCEPT !.path2 = newname])

DoChdir ==
    /\ Fresh
    /\ \E path \in SysPaths, ub \in Stores, junk \in Junk :
        \E o \in {do_chdir(St, path, ub, junk)} :
        Step(o, PathCall("do_chdir", path, NULL, {}, o, <<>>, 0))

\* what the driver's stat may return
StatRets == {0, -EIO}

DoStat ==
    /\ Fresh
    /\ \E path \in SysPaths, ub \in Stores, junk \in Junk,
          sret \in StatRets :
        \E o \in {do_stat(St, path, ub, junk, sret)} :
        Step(o, PathCall("do_stat", path, NULL, {}, o, <<>>, 0))

NextPath ==
    \/ DoMkdir
    \/ DoRmdir
    \/ DoUnlink
    \/ DoLink
    \/ DoRename
    \/ DoChdir
    \/ DoStat

SpecPath == InitNamev /\ [][NextPath]_vars

(***************************************************************************)
(* Properties of the resolver.                                             *)
(***************************************************************************)
\* the node a pathname names when resolved from vnode v, component by
\* component through the directory entries: NULL when a component is
\* missing, is looked up in a non-directory, or is too long
RECURSIVE NodeFrom(_, _, _)
NodeFrom(v, pathname, i) ==
    IF v = NULL THEN NULL
    ELSE IF i > Len(pathname) THEN v
    ELSE IF pathname[i] = "/"
    THEN IF S_ISDIR(vn_mode[v]) THEN NodeFrom(v, pathname, i + 1) ELSE NULL
    ELSE LET e == EndIndex(pathname, i + 1)
             nm == SubSeq(pathname, i, e - 1)
         IN IF e - i > NAME_LEN \/ ~S_ISDIR(vn_mode[v]) THEN NULL
            ELSE NodeFrom(DrvChild(St, v, nm), pathname, e)

\* pathname is absolute, short enough, and names an existing node
NamesNode(pathname) ==
    /\ Len(pathname) > 0
    /\ Len(pathname) < MAXPATHLEN
    /\ pathname[1] = "/"
    /\ NodeFrom(vfs_root_vn, pathname, 1) # NULL

\* C1: open_namev without O_CREAT on an absolute path that names an
\* existing node succeeds and gives the caller that node with one new
\* reference: once the caller vputs it, every reference count is what it
\* was before the call.
C1_OpenNamevBalanced ==
    [][(/\ last'.op = "open_namev"
        /\ "O_CREAT" \notin last'.flag
        /\ NamesNode(last'.path)) =>
         /\ ~last'.fault
         /\ last'.ret = 0
         /\ last'.res = NodeFrom(vfs_root_vn, last'.path, 1)
         /\ vn_refcount' = [vn_refcount EXCEPT ![last'.res] = @ + 1]]_vars

\* the errors the resolver returns
NamevErrors == {-ENOENT, -ENOTDIR, -ENAMETOOLONG, -EIO}

\* C2: when dir_namev or open_namev returns an error, every vnode's
\* reference count is what it was before the call.
C2_ErrorKeepsNoReference ==
    [][(/\ last'.op \in {"dir_namev", "open_namev"}
        /\ ~last'.fault
        /\ last'.ret \in NamevErrors) =>
         vn_refcount' = vn_refcount]_vars

(***************************************************************************)
(* Properties of the descriptor calls.                                     *)
(***************************************************************************)
IsOpen(fd) == fd \in Fds /\ p_files[fd] # NULL

\* the descriptor table and the handles are as before the step
HandlesUnchanged ==
    /\ p_files' = p_files
    /\ f_refcount' = f_refcount
    /\ f_pos' = f_pos
    /\ f_mode' = f_mode
    /\ f_vnode' = f_vnode

\* C3: every handle's reference count equals the number of descriptor slots
\* of curproc->p_files that point to it, after any sequence of do_close,
\* do_dup, do_dup2, do_read, do_write, do_lseek and do_getdent calls.
C3_RefcountIsSlotCount ==
    \A f \in Files : f_refcount[f] = Slots(St, f)

\* C4: do_close(fd) on an open descriptor returns 0, empties the slot and
\* lowers the handle's reference count by exactly one; on a descriptor out
\* of range or an empty slot it returns -EBADF and changes nothing.
C4_CloseReleasesClaim ==
    [][last'.op = "do_close" =>
         IF IsOpen(last'.fd)
         THEN /\ last'.ret = 0
              /\ p_files'[last'.fd] = NULL
              /\ f_refcount'[p_files[last'.fd]]
                    = f_refcount[p_files[last'.fd]] - 1
         ELSE /\ last'.ret = -EBADF
              /\ HandlesUnchanged]_vars

\* C5: a do_close(fd) right after a successful do_close(fd) returns -EBADF
\* and changes no reference count and no descriptor slot.
C5_SecondCloseFails ==
    [][(last'.op = "do_close" /\ last'.follows = "do_close") =>
         /\ last'.ret = -EBADF
         /\ f_refcount' = f_refcount
         /\ p_files' = p_files]_vars

C5_Witness ==
    /\ last.op = "do_close"
    /\ last.follows = "do_close"
    /\ last.ret = -EBADF
    /\ last.fd \in Fds
    /\ p_files[last.fd] = NULL

\* C6: do_dup(fd) on an open descriptor with a free slot returns a new
\* descriptor other than fd, whose slot was free and now names fd's handle,
\* and the handle's reference count is one higher; with fd out of range or
\* empty it returns -EBADF, with no free slot -EMFILE, and in both cases the
\* table and the reference counts are unchanged.
C6_DupAliases ==
    [][last'.op = "do_dup" =>
         IF ~IsOpen(last'.fd)
         THEN last'.ret = -EBADF /\ HandlesUnchanged
         ELSE IF \A fd \in Fds : p_files[fd] # NULL
         THEN last'.ret = -EMFILE /\ HandlesUnchanged
         ELSE /\ last'.ret \in Fds
              /\ last'.ret # last'.fd
              /\ p_files[last'.ret] = NULL
              /\ p_files' = [p_files EXCEPT ![last'.ret] = p_files[last'.fd]]
              /\ f_refcount' = [f_refcount EXCEPT ![p_files[last'.fd]] = @ + 1]
      ]_vars

C6_Witness ==
    /\ last.op = "do_dup"
    /\ last.ret \in Fds
    /\ last.ret # last.fd
    /\ p_files[last.ret] # NULL
    /\ p_files[last.ret] = p_files[last.fd]

\* C7: do_dup2(fd, fd) on an open descriptor returns fd and changes neither
\* the descriptor table nor the handle's reference count, cursor or mode.
C7_Dup2SelfIsNoOp ==
    [][(last'.op = "do_dup2" /\ last'.nfd = last'.fd /\ IsOpen(last'.fd)) =>
         /\ last'.ret = last'.fd
         /\ HandlesUnchanged]_vars

C7_Witness ==
    /\ last.op = "do_dup2"
    /\ last.nfd = last.fd
    /\ last.fd \in Fds
    /\ p_files[last.fd] # NULL
    /\ last.ret = last.fd

\* C8: do_dup2(ofd, nfd) with ofd open and nfd another descriptor in range
\* returns nfd, slot nfd names ofd's handle, whose reference count rises by
\* one, and a different handle that nfd held loses exactly one reference;
\* with ofd or nfd out of range or ofd not open it returns -EBADF and
\* changes nothing.
C8_Dup2Replaces ==
    [][(last'.op = "do_dup2" /\ last'.nfd # last'.fd) =>
         IF IsOpen(last'.fd) /\ last'.nfd \in Fds
         THEN /\ last'.ret = last'.nfd
              /\ p_files'[last'.nfd] = p_files[last'.fd]
              /\ f_refcount'[p_files[last'.fd]]
                    = f_refcount[p_files[last'.fd]] + 1
              /\ (p_files[last'.nfd] \notin {NULL, p_files[last'.fd]} =>
                    f_refcount'[p_files[last'.nfd]]
                       = f_refcount[p_files[last'.nfd]] - 1)
         ELSE /\ last'.ret = -EBADF
              /\ HandlesUnchanged]_vars

\* what a caller observes of a call on handle h: the return value, the
\* driver operations, a fault, and the cursor afterwards
Observed(o, h) == <<o.ret, o.fault, o.drv, o.st.f_pos[h]>>

\* C9: after fd2 = do_dup(fd) and a successful do_close(fd), fd2 names the
\* same live handle (reference count > 0, same vnode, mode and cursor as
\* before the close), and do_read, do_write and do_lseek through fd2 do
\* what they would have done through fd before the close.
C9_DupSurvivesClose ==
    [][(last'.op = "do_close" /\ last'.follows = "do_dup" /\ last'.ret = 0) =>
         LET fd == last'.fd
             fd2 == last.ret
             h == p_files[fd]
         IN /\ p_files'[fd2] = h
            /\ f_refcount'[h] > 0
            /\ f_vnode'[h] = f_vnode[h]
            /\ f_mode'[h] = f_mode[h]
            /\ f_pos'[h] = f_pos[h]
            /\ \A n \in 1 .. MaxBytes : \A dret \in DriverBytes(n) :
                  /\ Observed(do_read(St', fd2, n, dret), h)
                        = Observed(do_read(St, fd, n, dret), h)
                  /\ Observed(do_write(St', fd2, n, dret), h)
                        = Observed(do_write(St, fd, n, dret), h)
            /\ \A off \in Offsets, wh \in Whences :
                  Observed(do_lseek(St', fd2, off, wh), h)
                     = Observed(do_lseek(St, fd, off, wh), h)
      ]_vars

C9_Witness ==
    /\ last.op = "do_close"
    /\ last.follows = "do_dup"
    /\ last.ret = 0
    /\ last.pret \in Fds
    /\ last.pret # last.fd
    /\ p_files[last.fd] = NULL
    /\ p_files[last.pret] # NULL
    /\ f_refcount[p_files[last.pret]] > 0

Writable(fd) == IsOpen(fd) /\ "WRITE" \in f_mode[p_files[fd]]

\* C11: do_write returns -EBADF exactly when fd is out of range, not open
\* or not opened for writing; on a handle opened for writing (write-only or
\* read-write) it invokes the driver's write once, at the cursor when the
\* handle is not in append mode, returns what the driver returned, and the
\* cursor advances by the byte count returned.
C11_WriteContract ==
    [][last'.op = "do_write" =>
         IF ~Writable(last'.fd)
         THEN last'.ret = -EBADF /\ last'.drv = <<>> /\ ~last'.fault
         ELSE LET h == p_files[last'.fd] IN
              /\ ~last'.fault
              /\ last'.ret # -EBADF
              /\ Len(last'.drv) = 1
              /\ last'.drv[1][1] = "write"
              /\ (~FMODE_ISAPPEND(f_mode[h]) => last'.drv[1][2] = f_pos[h])
              /\ (last'.ret >= 0 => f_pos'[h] = last'.drv[1][2] + last'.ret)
      ]_vars

\* C12: do_write on a handle opened for writing in append mode invokes the
\* driver's write at the vnode's length, whatever the cursor was, and
\* afterwards the cursor is that length plus the byte count returned.
C12_AppendWritesAtEnd ==
    [][(/\ last'.op = "do_write"
        /\ Writable(last'.fd)
        /\ FMODE_ISAPPEND(f_mode[p_files[last'.fd]])) =>
         LET h == p_files[last'.fd]
             len == vn_len[f_vnode[h]]
         IN /\ ~last'.fault
            /\ last'.drv = <<<<"write", len>>>>
            /\ (last'.ret >= 0 => f_pos'[h] = len + last'.ret)
      ]_vars

\* C13: do_lseek on an open descriptor sets the cursor to offset (SEEK_SET,
\* offset >= 0) or to cursor + offset (SEEK_CUR, cursor + offset >= 0) and
\* returns the new cursor; with a negative result, or a whence that is not
\* SEEK_SET, SEEK_CUR or SEEK_END, it returns -EINVAL and leaves the cursor;
\* with fd out of range or not open it returns -EBADF.  The reference
\* counts are the same after the call as before.
C13_LseekContract ==
    [][last'.op = "do_lseek" =>
         /\ ~last'.fault
         /\ f_refcount' = f_refcount
         /\ IF ~IsOpen(last'.fd)
            THEN last'.ret = -EBADF /\ f_pos' = f_pos
            ELSE LET h == p_files[last'.fd]
                     new == IF last'.whence = SEEK_SET THEN last'.off
                            ELSE f_pos[h] + last'.off
                 IN IF last'.whence \in {SEEK_SET, SEEK_CUR}
                    THEN IF new >= 0
                         THEN /\ last'.ret = new
                              /\ f_pos' = [f_pos EXCEPT ![h] = new]
                         ELSE last'.ret = -EINVAL /\ f_pos' = f_pos
                    ELSE IF last'.whence = SEEK_END
                    THEN TRUE
                    ELSE last'.ret = -EINVAL /\ f_pos' = f_pos
      ]_vars

(***************************************************************************)
(* Properties of the resolver: trailing separators, non-directories on the *)
(* way, creation.                                                          *)
(***************************************************************************)
\* where the resolution of pathname starts: the root for an absolute path,
\* else base, or the cwd when base is NULL
StartOf(pathname, base) ==
    IF pathname[1] = "/" THEN vfs_root_vn
    ELSE IF base = NULL THEN p_cwd
    ELSE base

\* a component starts at or after index j of pathname
HasMore(pathname, j) == \E n \in j .. Len(pathname) : pathname[n] # "/"

\* resolved from vnode v, some component of pathname that a further
\* component follows names an existing node that is not a directory
RECURSIVE ThroughNonDir(_, _, _)
ThroughNonDir(v, pathname, i) ==
    IF v = NULL \/ i > Len(pathname) THEN FALSE
    ELSE IF pathname[i] = "/" THEN ThroughNonDir(v, pathname, i + 1)
    ELSE LET e == EndIndex(pathname, i + 1)
             nm == SubSeq(pathname, i, e - 1)
         IN IF e - i > NAME_LEN \/ ~S_ISDIR(vn_mode[v]) THEN FALSE
            ELSE LET c == DrvChild(St, v, nm) IN
                 IF c = NULL THEN FALSE
                 ELSE IF ~S_ISDIR(vn_mode[c]) /\ HasMore(pathname, e)
                 THEN TRUE
                 ELSE ThroughNonDir(c, pathname, e)

\* C14: for a path that ends in a separator and whose components name an
\* existing directory d, dir_namev returns 0 with *res_vnode = d and
\* *namelen = 0, and d has exactly one more reference than before.
C14_TrailingSeparator ==
    [][(/\ last'.op = "dir_namev"
        /\ Len(last'.path) > 0
        /\ Len(last'.path) < MAXPATHLEN
        /\ last'.path[Len(last'.path)] = "/"
        /\ NodeFrom(StartOf(last'.path, last'.base), last'.path, 1) # NULL) =>
         LET d == NodeFrom(StartOf(last'.path, last'.base), last'.path, 1)
         IN /\ ~last'.fault
            /\ last'.ret = 0
            /\ last'.res = d
            /\ last'.namelen = 0
            /\ vn_refcount' = [vn_refcount EXCEPT ![d] = @ + 1]
      ]_vars

\* C15: for a path in which a component that a further component follows
\* names an existing node that is not a directory, dir_namev and open_namev
\* return -ENOTDIR.
C15_NonDirOnTheWay ==
    [][(/\ last'.op \in {"dir_namev", "open_namev"}
        /\ Len(last'.path) > 0
        /\ Len(last'.path) < MAXPATHLEN
        /\ ThroughNonDir(StartOf(last'.path, last'.base), last'.path, 1)) =>
         /\ ~last'.fault
         /\ last'.ret = -ENOTDIR
      ]_vars

\* C16: open_namev("/a/b/c", O_CREAT), /a/b an existing directory without
\* an entry c, calls the create operation of /a/b with the name c exactly
\* once; when the driver creates the node, open_namev returns 0 with
\* *res_vnode the new node, which has one reference, and the reference
\* counts of the other vnodes are as before.
C16_CreateInDeepDir ==
    [][(/\ last'.op = "open_namev"
        /\ last'.path = DeepPath
        /\ "O_CREAT" \in last'.flag) =>
         /\ ~last'.fault
         /\ last'.drv = <<<<"create", VnB, <<"c">>>>>>
         /\ (entries' # entries =>
               /\ last'.ret = 0
               /\ last'.res = VnFree
               /\ <<VnB, <<"c">>, VnFree>> \in entries'
               /\ vn_refcount' = [vn_refcount EXCEPT ![VnFree] = 1])
      ]_vars

(***************************************************************************)
(* Properties of do_rmdir, do_mkdir, do_unlink and do_link.                *)
(***************************************************************************)
\* the index where the final component of pathname starts
LeafStart(pathname) ==
    IF \E j \in 1 .. Len(pathname) : pathname[j] = "/"
    THEN 1 + CHOOSE j \in 1 .. Len(pathname) :
                /\ pathname[j] = "/"
                /\ \A n \in (j + 1) .. Len(pathname) : pathname[n] # "/"
    ELSE 1

\* the final component of pathname
Leaf(pathname) == SubSeq(pathname, LeafStart(pathname), Len(pathname))

\* the directory that the components before the final one name, or NULL
ParentDir(pathname) ==
    LET v == NodeFrom(StartOf(pathname, NULL),
                      SubSeq(pathname, 1, LeafStart(pathname) - 1), 1)
    IN IF v # NULL /\ S_ISDIR(vn_mode[v]) THEN v ELSE NULL

\* pathname has a final component of a legal length under a directory
\* that exists
HasParentAndLeaf(pathname) ==
    /\ Len(pathname) > 0
    /\ Len(pathname) < MAXPATHLEN
    /\ Leaf(pathname) # <<>>
    /\ Len(Leaf(pathname)) <= NAME_LEN
    /\ ParentDir(pathname) # NULL

\* C17: do_rmdir returns -EINVAL when the final component is "." and
\* -ENOTEMPTY when it is "..", without calling the driver's rmdir and with
\* every vnode reference count unchanged; for another final component under
\* an existing directory it calls that directory's rmdir with the leaf name
\* and returns what rmdir returned.
C17_RmdirContract ==
    [][(/\ last'.op = "do_rmdir"
        /\ ~last'.fault
        /\ HasParentAndLeaf(last'.path)) =>
         LET leaf == Leaf(last'.path)
             parent == ParentDir(last'.path)
         IN /\ IF leaf = <<".">>
               THEN /\ last'.ret = -EINVAL
                    /\ last'.drv = <<>>
                    /\ vn_refcount' = vn_refcount
               ELSE IF leaf = <<".", ".">>
               THEN /\ last'.ret = -ENOTEMPTY
                    /\ last'.drv = <<>>
                    /\ vn_refcount' = vn_refcount
               ELSE last'.drv = <<<<"rmdir", parent, leaf, last'.ret>>>>
      ]_vars

\* C18: do_mkdir under an existing directory returns -EEXIST, without
\* calling the driver's mkdir, when the leaf name resolves in it; else it
\* calls the directory's mkdir with the leaf name and returns what mkdir
\* returned; either way the vnodes have the reference counts they had.
C18_MkdirContract ==
    [][(/\ last'.op = "do_mkdir"
        /\ ~last'.fault
        /\ HasParentAndLeaf(last'.path)) =>
         LET leaf == Leaf(last'.path)
             parent == ParentDir(last'.path)
         IN /\ IF DrvChild(St, parent, leaf) # NULL
               THEN last'.ret = -EEXIST /\ last'.drv = <<>>
               ELSE last'.drv = <<<<"mkdir", parent, leaf, last'.ret>>>>
            /\ vn_refcount' = vn_refcount
      ]_vars

\* C19: do_unlink returns -EISDIR when the node its path names is a
\* directory; when that node is not a directory it calls the unlink of the
\* parent directory with the leaf name and returns what unlink returned;
\* either way the parent has the reference count it had.
C19_UnlinkContract ==
    [][(/\ last'.op = "do_unlink"
        /\ ~last'.fault
        /\ HasParentAndLeaf(last'.path)
        /\ DrvChild(St, ParentDir(last'.path), Leaf(last'.path)) # NULL) =>
         LET leaf == Leaf(last'.path)
             parent == ParentDir(last'.path)
         IN /\ IF S_ISDIR(vn_mode[DrvChild(St, parent, leaf)])
               THEN last'.ret = -EISDIR /\ last'.drv = <<>>
               ELSE last'.drv = <<<<"unlink", parent, leaf, last'.ret>>>>
            /\ vn_refcount'[parent] = vn_refcount[parent]
      ]_vars

\* C20: do_link(from, to), from an existing node and to's parent an
\* existing directory, returns -EEXIST when to's leaf name resolves in that
\* parent; else it calls the driver's link, which binds the leaf name in
\* the parent to from's node, and returns what link returned; either way
\* the vnodes have the reference counts they had.
C20_LinkContract ==
    [][(/\ last'.op = "do_link"
        /\ ~last'.fault
        /\ Len(last'.path) > 0
        /\ Len(last'.path) < MAXPATHLEN
        /\ NodeFrom(StartOf(last'.path, NULL), last'.path, 1) # NULL
        /\ HasParentAndLeaf(last'.path2)) =>
         LET node == NodeFrom(StartOf(last'.path, NULL), last'.path, 1)
             leaf == Leaf(last'.path2)
             parent == ParentDir(last'.path2)
         IN /\ IF DrvChild(St, parent, leaf) # NULL
               THEN last'.ret = -EEXIST /\ last'.drv = <<>>
               ELSE last'.drv
                      = <<<<"link", node, parent, leaf, last'.ret>>>>
            /\ vn_refcount' = vn_refcount
      ]_vars

\* The calls do_rename made, in order: the entries of a call record that
\* stand for do_link and do_unlink (the rest are the driver operations
\* those calls reached).
RenameCalls(d) ==
    SelectSeq(d, LAMBDA e : e[1] \in {"do_link", "do_unlink"})

Resolved(path) ==
    IF Len(path) >= MAXPATHLEN THEN NULL
    ELSE NodeFrom(StartOf(path, NULL), path, 1)

\* C22: do_chdir on a path that names a directory d returns 0, makes d the
\* cwd, and leaves d with one reference more and the previous cwd with one
\* less; on a path that names a non-directory it returns -ENOTDIR, and on
\* a path that does not resolve it returns the resolver's error, in both
\* cases with the cwd and every vnode's reference count as they were.
C22_ChdirContract ==
    [][(/\ last'.op = "do_chdir"
        /\ ~last'.fault
        /\ Len(last'.path) > 0) =>
         LET d == Resolved(last'.path) IN
         IF d # NULL /\ S_ISDIR(vn_mode[d])
         THEN /\ last'.ret = 0
              /\ p_cwd' = d
              /\ vn_refcount' = [[vn_refcount EXCEPT ![d] = @ + 1]
                                   EXCEPT ![p_cwd] = @ - 1]
         ELSE /\ IF d # NULL THEN last'.ret = -ENOTDIR
                 ELSE last'.ret \in NamevErrors
              /\ p_cwd' = p_cwd
              /\ vn_refcount' = vn_refcount
      ]_vars

(***************************************************************************)
(* Properties of do_getdent and of the cursor.                             *)
(***************************************************************************)
\* C23: do_getdent returns -EBADF for a descriptor that is out of range or
\* not open and -ENOTDIR for a handle that is not on a directory; on an
\* open directory it calls readdir once, with the handle's cursor as the
\* offset, adds the byte count readdir returned to the cursor, and returns
\* 0 when that count was 0 and sizeof(dirent_t) otherwise.
C23_GetdentContract ==
    [][last'.op = "do_getdent" =>
         /\ ~last'.fault
         /\ IF ~IsOpen(last'.fd) THEN last'.ret = -EBADF
            ELSE LET file == p_files[last'.fd] IN
                 IF ~S_ISDIR(vn_mode[f_vnode[file]])
                 THEN last'.ret = -ENOTDIR
                 ELSE /\ last'.drv = <<<<"readdir", f_pos[file]>>>>
                      /\ last'.ret \in {0, sizeof_dirent}
                      /\ f_pos'[file] - f_pos[file] \in ReaddirBytes
                      /\ last'.ret = 0 <=> f_pos'[file] = f_pos[file]
      ]_vars

(***************************************************************************)
(* Where dir_namev starts.                                                 *)
(***************************************************************************)
\* pathname is short enough and is one component of at most NAME_LEN
\* characters, after any number of separators and followed by none: its
\* parent directory is the vnode the resolution starts at
OneComponent(pathname) ==
    /\ Len(pathname) > 0
    /\ Len(pathname) < MAXPATHLEN
    /\ pathname[Len(pathname)] # "/"
    /\ \A n \in 1 .. Len(pathname) : \A m \in n .. Len(pathname) :
          pathname[n] # "/" => pathname[m] # "/"
    /\ Cardinality({n \in 1 .. Len(pathname) : pathname[n] # "/"})
          <= NAME_LEN

\* C24: dir_namev starts at vfs_root_vn for a pathname that begins with a
\* separator, whatever base and the cwd are, and for any other pathname at
\* base, or at the cwd when base is NULL; it takes one reference on that
\* vnode.  For a pathname of one component the vnode it starts at is the
\* parent it returns.
C24_StartsAtRootOrBase ==
    [][(/\ last'.op = "dir_namev"
        /\ ~last'.fault
        /\ OneComponent(last'.path)) =>
         LET start == StartOf(last'.path, last'.base) IN
         /\ last'.ret = 0
         /\ last'.res = start
         /\ vn_refcount' = [vn_refcount EXCEPT ![start] = @ + 1]
      ]_vars

(***************************************************************************)
(* do_stat.                                                                *)
(***************************************************************************)
\* C25: do_stat on a path that resolves calls the driver's stat on the node
\* the path names, once, returns what stat returned and leaves every
\* vnode with the reference count it had; on a path that does not resolve
\* it returns the resolver's negative error, never a positive value,
\* without calling stat and with every reference count as it was.
C25_StatContract ==
    [][(/\ last'.op = "do_stat"
        /\ ~last'.fault
        /\ Len(last'.path) > 0) =>
         LET node == Resolved(last'.path) IN
         /\ IF node # NULL
            THEN last'.drv = <<<<"stat", node, last'.ret>>>>
            ELSE last'.ret \in NamevErrors /\ last'.drv = <<>>
         /\ vn_refcount' = vn_refcount
      ]_vars

(***************************************************************************)
(* The cursor.                                                             *)
(***************************************************************************)
\* C26: after a do_read, do_write, do_getdent or do_lseek no handle's
\* cursor is negative, and a call that returned a negative value leaves
\* every cursor where it was.
C26_CursorNeverNegative ==
    [][last'.op \in {"do_read", "do_write", "do_getdent", "do_lseek"} =>
         /\ \A f \in Files : f_pos'[f] >= 0
         /\ (~last'.fault /\ last'.ret < 0) => f_pos' = f_pos
      ]_vars

====
